---- MODULE Spec2Model ----
\* A model of the circuitSim propagation core: Value, Function::evaluate,
\* the Circuit construction operations and the Simulator (set_input, step,
\* simulate).  Rust indices are 0-based; sequences here are 1-based, so the
\* element at Rust index i of a vector s is At(s, i) = s[i + 1].
EXTENDS Integers, Sequences, FiniteSets, TLC

VARIABLES circuit, values, changed_values, last, unseen, scenario,
          evaluation, twin

vars == <<circuit, values, changed_values, last, unseen, scenario,
         evaluation, twin>>

\* ---------------------------------------------------------------- bounds
\* set_input is only explored while the worklist holds fewer than MaxQueue
\* entries more than the circuit has value slots, step and simulate while it
\* holds at most that many.
MaxQueue == 2

\* ---------------------------------------------------------------- Value
On == "On"
Off == "Off"
Value == {On, Off}

bitand(a, b) == IF a = On /\ b = On THEN On ELSE Off

bitor(a, b) == IF a = Off /\ b = Off THEN Off ELSE On

not_identity(a) == a

not(a) == IF a = On THEN Off ELSE On

At(s, i) == s[i + 1]

Contains(s, x) == \E k \in 1..Len(s) : s[k] = x

Min(a, b) == IF a < b THEN a ELSE b

\* ---------------------------------------------------------------- Function
And == [tag |-> "And"]
Or == [tag |-> "Or"]
Not == [tag |-> "Not"]
Nand == [tag |-> "Nand"]
Nor == [tag |-> "Nor"]
FlipFlopRS == [tag |-> "FlipFlopRS"]
FlipFlopJK == [tag |-> "FlipFlopJK"]
FlipFlopD == [tag |-> "FlipFlopD"]
FlipFlopT == [tag |-> "FlipFlopT"]
FunctionCircuit(c) == [tag |-> "Circuit", circuit |-> c]

input_value_count(function) ==
  CASE function.tag = "And" -> 2
    [] function.tag = "Or" -> 2
    [] function.tag = "Not" -> 1
    [] function.tag = "Nand" -> 2
    [] function.tag = "Nor" -> 2
    [] function.tag = "Circuit" -> Len(function.circuit.inputs)
    [] function.tag = "FlipFlopRS" -> 2
    [] function.tag = "FlipFlopJK" -> 3
    [] function.tag = "FlipFlopD" -> 2
    [] function.tag = "FlipFlopT" -> 2

output_value_count(function) ==
  CASE function.tag = "And" -> 1
    [] function.tag = "Or" -> 1
    [] function.tag = "Not" -> 1
    [] function.tag = "Nand" -> 1
    [] function.tag = "Nor" -> 1
    [] function.tag = "Circuit" -> Len(function.circuit.outputs)
    [] function.tag = "FlipFlopRS" -> 2
    [] function.tag = "FlipFlopJK" -> 2
    [] function.tag = "FlipFlopD" -> 2
    [] function.tag = "FlipFlopT" -> 2

owned_value_count_rs_two(function) ==
  CASE function.tag = "And" -> 0
    [] function.tag = "Or" -> 0
    [] function.tag = "Not" -> 0
    [] function.tag = "Nand" -> 0
    [] function.tag = "Nor" -> 0
    [] function.tag = "Circuit" -> 0
    [] function.tag = "FlipFlopRS" -> 2
    [] function.tag = "FlipFlopJK" -> 2
    [] function.tag = "FlipFlopD" -> 2
    [] function.tag = "FlipFlopT" -> 2

owned_value_count(function) ==
  CASE function.tag = "And" -> 0
    [] function.tag = "Or" -> 0
    [] function.tag = "Not" -> 0
    [] function.tag = "Nand" -> 0
    [] function.tag = "Nor" -> 0
    [] function.tag = "Circuit" -> 0
    [] function.tag = "FlipFlopRS" -> 1
    [] function.tag = "FlipFlopJK" -> 2
    [] function.tag = "FlipFlopD" -> 2
    [] function.tag = "FlipFlopT" -> 2

is_positiv_transient_level(old_value, new_value) == new_value = On

is_positiv_transient_falling(old_value, new_value) ==
  old_value # new_value /\ new_value = Off

is_positiv_transient_any(old_value, new_value) == old_value # new_value

is_positiv_transient(old_value, new_value) ==
  old_value /= new_value /\ new_value = On

\* fold_and as it would be if the fold combined with | instead of &
RECURSIVE fold_and_with_or(_, _)
fold_and_with_or(acc, input_values) ==
  IF input_values = <<>> THEN acc
  ELSE fold_and_with_or(bitor(acc, Head(input_values)), Tail(input_values))

\* input_values.iter().fold(Value::On, |acc, &x| acc & x)
RECURSIVE fold_and(_, _)
fold_and(acc, input_values) ==
  IF input_values = <<>> THEN acc
  ELSE fold_and(bitand(acc, Head(input_values)), Tail(input_values))

\* input_values.iter().fold(Value::Off, |acc, &x| acc | x)
RECURSIVE fold_or(_, _)
fold_or(acc, input_values) ==
  IF input_values = <<>> THEN acc
  ELSE fold_or(bitor(acc, Head(input_values)), Tail(input_values))

\* ---------------------------------------------------------------- Circuit
Circuit_new ==
  [inputs |-> <<>>, outputs |-> <<>>, components |-> <<>>, value_list_len |-> 0]

add_input(c) ==
  [c EXCEPT !.inputs = Append(@, [value_index |-> c.value_list_len]),
            !.value_list_len = @ + 1]

add_output(c, value_index) ==
  [c EXCEPT !.outputs = Append(@, [value_index |-> value_index])]

\* let output_index = self.outputs.len() - 1, read after the push
add_output_returns(c, value_index) == Len(add_output(c, value_index).outputs) - 1

Component_new_swapped(function, input_value_indices, output_value_indices, owned_value_indices) ==
  [input_value_indices |-> input_value_indices,
   output_value_indices |-> owned_value_indices,
   owned_value_indices |-> output_value_indices,
   function |-> function]

Component_new_aliased(function, input_value_indices, output_value_indices, owned_value_indices) ==
  [input_value_indices |-> input_value_indices,
   output_value_indices |-> output_value_indices,
   owned_value_indices |-> output_value_indices,
   function |-> function]

Component_new(function, input_value_indices, output_value_indices, owned_value_indices) ==
  [input_value_indices |-> input_value_indices,
   output_value_indices |-> output_value_indices,
   owned_value_indices |-> owned_value_indices,
   function |-> function]

add_component(c, function, input_value_indices) ==
  LET output_start == c.value_list_len
      owned_start == output_start + output_value_count(function)
      output_value_indices ==
        [k \in 1..output_value_count(function) |-> output_start + k - 1]
      owned_value_indices ==
        [k \in 1..owned_value_count(function) |-> owned_start + k - 1]
  IN [c EXCEPT
        !.components = Append(@, Component_new(function, input_value_indices,
                                               output_value_indices, owned_value_indices)),
        !.value_list_len = owned_start + owned_value_count(function)]

\* (input_index, value_index) of the Input just appended
add_input_returns(c) ==
  LET after == add_input(c)
  IN <<Len(after.inputs) - 1, after.inputs[Len(after.inputs)].value_index>>

\* (component_index, output_value_indices) of the Component just appended
add_component_returns(c, function, input_value_indices) ==
  LET after == add_component(c, function, input_value_indices)
  IN <<Len(after.components) - 1,
       after.components[Len(after.components)].output_value_indices>>

\* ---------------------------------------------------------------- Simulator
StepsUntilUnstable == 1000

\* Simulator::new as it would be if it left the worklist empty
Simulator_new_empty_worklist(c) ==
  [circuit |-> c,
   values |-> [k \in 1..c.value_list_len |-> Off],
   changed_values |-> <<>>,
   steps_until_unstable |-> StepsUntilUnstable]

\* Simulator::new as it would be if it seeded the worklist from the highest
\* index down
Simulator_new_descending_worklist(c) ==
  [circuit |-> c,
   values |-> [k \in 1..c.value_list_len |-> Off],
   changed_values |-> [k \in 1..c.value_list_len |-> c.value_list_len - k],
   steps_until_unstable |-> StepsUntilUnstable]

Simulator_new(c) ==
  [circuit |-> c,
   values |-> [k \in 1..c.value_list_len |-> Off],
   changed_values |-> [k \in 1..c.value_list_len |-> k - 1],
   steps_until_unstable |-> StepsUntilUnstable]

\* set_input as it would be if it enqueued the input index instead of the
\* input's value index
set_input_enqueues_input_index(sim, input_index, value) ==
  LET value_index == At(sim.circuit.inputs, input_index).value_index
  IN IF At(sim.values, value_index) /= value
     THEN [sim EXCEPT !.values[value_index + 1] = value,
                      !.changed_values = Append(@, input_index)]
     ELSE sim

\* set_input as it would be without the comparison with the stored value
set_input_unconditional(sim, input_index, value) ==
  LET value_index == At(sim.circuit.inputs, input_index).value_index
  IN [sim EXCEPT !.values[value_index + 1] = value,
                 !.changed_values = Append(@, value_index)]

set_input(sim, input_index, value) ==
  LET value_index == At(sim.circuit.inputs, input_index).value_index
  IN IF At(sim.values, value_index) /= value
     THEN [sim EXCEPT !.values[value_index + 1] = value,
                      !.changed_values = Append(@, value_index)]
     ELSE sim

\* the component indices, ascending, whose input list contains the index
RECURSIVE find_from(_, _, _)
find_from(components, input_value_index, i) ==
  IF i >= Len(components) THEN <<>>
  ELSE LET rest == find_from(components, input_value_index, i + 1)
       IN IF Contains(At(components, i).input_value_indices, input_value_index)
          THEN <<i>> \o rest
          ELSE rest

find_components_by_input_descending(sim, input_value_index) ==
  LET found == find_from(sim.circuit.components, input_value_index, 0)
  IN [k \in 1..Len(found) |-> found[Len(found) - k + 1]]

find_components_by_input(sim, input_value_index) ==
  find_from(sim.circuit.components, input_value_index, 0)

RECURSIVE evaluate(_, _, _)

\* the (index, value) pairs of the outputs whose new value differs
RECURSIVE changes_from(_, _, _, _)
changes_from(component, old_output_values, new_output_values, i) ==
  IF i >= Min(Len(old_output_values), Len(new_output_values)) THEN <<>>
  ELSE LET rest == changes_from(component, old_output_values, new_output_values, i + 1)
       IN IF At(old_output_values, i) /= At(new_output_values, i)
          THEN <<[index |-> At(component.output_value_indices, i),
                  value |-> At(new_output_values, i)]>> \o rest
          ELSE rest

value_changes(component, old_output_values, new_output_values) ==
  changes_from(component, old_output_values, new_output_values, 0)

write_owned_nothing(vals, owned_value_indices, new_owned_values, i) == vals

write_owned_state_only(vals, owned_value_indices, new_owned_values, i) ==
  IF owned_value_indices = <<>> THEN vals
  ELSE [vals EXCEPT ![At(owned_value_indices, 0) + 1] = At(new_owned_values, 0)]

\* for i in 0..owned_value_indices.len(): values[owned_value_indices[i]] = new_owned_values[i]
RECURSIVE write_owned(_, _, _, _)
write_owned(vals, owned_value_indices, new_owned_values, i) ==
  IF i >= Len(owned_value_indices) THEN vals
  ELSE write_owned([vals EXCEPT ![At(owned_value_indices, i) + 1] = At(new_owned_values, i)],
                   owned_value_indices, new_owned_values, i + 1)

\* value_changes.for_each(|(output_index, &value)| values[output_index] = value)
RECURSIVE write_changes(_, _)
write_changes(vals, changes) ==
  IF changes = <<>> THEN vals
  ELSE write_changes([vals EXCEPT ![Head(changes).index + 1] = Head(changes).value],
                     Tail(changes))

enqueue_changed_always(queue, index) == Append(queue, index)

\* if changed_values.contains(&index) { changed_values.push_back(index) }
enqueue_changed(queue, index) ==
  IF Contains(queue, index) THEN Append(queue, index) ELSE queue

RECURSIVE enqueue_changes(_, _)
enqueue_changes(queue, changes) ==
  IF changes = <<>> THEN queue
  ELSE enqueue_changes(enqueue_changed(queue, Head(changes).index), Tail(changes))

\* the values read by a component: its inputs, old outputs and owned values
component_reads(sim, component) ==
  [input_values |->
     [k \in 1..Len(component.input_value_indices) |->
        At(sim.values, component.input_value_indices[k])],
   old_output_values |->
     [k \in 1..Len(component.output_value_indices) |->
        At(sim.values, component.output_value_indices[k])],
   owned_values |->
     IF output_value_count(component.function) /= 0
     THEN [k \in 1..Len(component.owned_value_indices) |->
             At(sim.values, component.owned_value_indices[k])]
     ELSE <<>>]

\* the new owned values of a component and the changes of its outputs
component_result(sim, component) ==
  LET reads == component_reads(sim, component)
      result == evaluate(component.function, reads.input_values, reads.owned_values)
  IN [new_owned_values |-> result.owned_values,
      value_changes |->
        value_changes(component, reads.old_output_values, result.output_values)]

commit_result_writes_inputs(sim, component, result) ==
  [sim EXCEPT
     !.values = write_changes(write_owned(@, SubSeq(component.input_value_indices, 1,
                                                    Min(Len(component.input_value_indices),
                                                        Len(result.new_owned_values))),
                                          result.new_owned_values, 0),
                              result.value_changes),
     !.changed_values = enqueue_changes(@, result.value_changes)]

\* the writes of one pass of the loop over components_to_update
commit_result(sim, component, result) ==
  [sim EXCEPT
     !.values = write_changes(write_owned(@, component.owned_value_indices,
                                          result.new_owned_values, 0),
                              result.value_changes),
     !.changed_values = enqueue_changes(@, result.value_changes)]

\* ------------------------------------------------ observer of re-evaluations
\* The observer is not program state.  It holds the pairs <<k, c>> such that
\* the value at index k changed and component c, which lists k as an input,
\* has not been evaluated since.
Readers(c, index) ==
  {i \in 0..(Len(c.components) - 1) :
     Contains(At(c.components, i).input_value_indices, index)}

ChangedPairs(c, indices) ==
  UNION {{<<k, i>> : i \in Readers(c, k)} : k \in indices}

ObserveEvaluation(seen, c, component_index, changes) ==
  {p \in seen : p[2] /= component_index}
    \cup ChangedPairs(c, {changes[k].index : k \in 1..Len(changes)})

ObserveSetInput(sim, input_index, value, seen) ==
  LET value_index == At(sim.circuit.inputs, input_index).value_index
  IN IF At(sim.values, value_index) /= value
     THEN seen \cup ChangedPairs(sim.circuit, {value_index})
     ELSE seen

\* ---------------------------------------------------------------- step
\* A tracked simulator pairs the simulator with the observer.
Tracked(sim, seen) == [sim |-> sim, unseen |-> seen]

\* the body of the loop over components_to_update in step
update_component(tracked, component_index) ==
  LET component == At(tracked.sim.circuit.components, component_index)
      result == component_result(tracked.sim, component)
  IN Tracked(commit_result(tracked.sim, component, result),
             ObserveEvaluation(tracked.unseen, tracked.sim.circuit, component_index,
                               result.value_changes))

RECURSIVE update_components(_, _)
update_components(tracked, components_to_update) ==
  IF components_to_update = <<>> THEN tracked
  ELSE update_components(update_component(tracked, Head(components_to_update)),
                         Tail(components_to_update))

\* step as it would be if an empty worklist yielded index 0 instead of
\* returning
step_default_index(tracked) ==
  LET value_to_check == IF tracked.sim.changed_values = <<>> THEN 0
                        ELSE Head(tracked.sim.changed_values)
      popped == IF tracked.sim.changed_values = <<>> THEN tracked
                ELSE [tracked EXCEPT !.sim.changed_values = Tail(@)]
  IN update_components(popped, find_components_by_input(popped.sim, value_to_check))

step(tracked) ==
  IF tracked.sim.changed_values = <<>> THEN tracked
  ELSE LET value_to_check == Head(tracked.sim.changed_values)
           popped == [tracked EXCEPT !.sim.changed_values = Tail(@)]
       IN update_components(popped, find_components_by_input(popped.sim, value_to_check))

\* ---------------------------------------------------------------- simulate
\* simulate's loop as it would be if exceeding the ceiling left the loop
\* (break) and fell through to the final true
simulate_loop_break(run) ==
  IF run.returned THEN run
  ELSE IF run.tracked.sim.changed_values = <<>>
  THEN [run EXCEPT !.returned = TRUE, !.result = TRUE]
  ELSE LET step_count == run.step_count + 1
       IN IF step_count > run.tracked.sim.steps_until_unstable
          THEN [run EXCEPT !.step_count = step_count, !.returned = TRUE, !.result = TRUE]
          ELSE [run EXCEPT !.step_count = step_count,
                           !.step_calls = @ + 1,
                           !.tracked = step(run.tracked)]

\* simulate's loop as it would be without the comparison with the ceiling
simulate_loop_unbounded(run) ==
  IF run.returned THEN run
  ELSE IF run.tracked.sim.changed_values = <<>>
  THEN [run EXCEPT !.returned = TRUE, !.result = TRUE]
  ELSE [run EXCEPT !.step_count = @ + 1,
                   !.step_calls = @ + 1,
                   !.tracked = step(run.tracked)]

\* simulate's loop as it would be if reaching the ceiling, instead of
\* exceeding it, reported non-convergence
simulate_loop_off_by_one(run) ==
  IF run.returned THEN run
  ELSE IF run.tracked.sim.changed_values = <<>>
  THEN [run EXCEPT !.returned = TRUE, !.result = TRUE]
  ELSE LET step_count == run.step_count + 1
       IN IF step_count >= run.tracked.sim.steps_until_unstable
          THEN [run EXCEPT !.step_count = step_count, !.returned = TRUE, !.result = FALSE]
          ELSE [run EXCEPT !.step_count = step_count,
                           !.step_calls = @ + 1,
                           !.tracked = step(run.tracked)]

\* One pass of the while loop of simulate; run records the simulator, the
\* local step_count, whether the call has returned and with which result, and
\* (for the observer) the number of calls of step it has made.
simulate_loop(run) ==
  IF run.returned THEN run
  ELSE IF run.tracked.sim.changed_values = <<>>
  THEN [run EXCEPT !.returned = TRUE, !.result = TRUE]
  ELSE LET step_count == run.step_count + 1
       IN IF step_count > run.tracked.sim.steps_until_unstable
          THEN [run EXCEPT !.step_count = step_count, !.returned = TRUE, !.result = FALSE]
          ELSE [run EXCEPT !.step_count = step_count,
                           !.step_calls = @ + 1,
                           !.tracked = step(run.tracked)]

\* n passes of the loop, split in halves to keep the evaluation shallow
RECURSIVE iterate(_, _)
iterate(run, n) ==
  IF run.returned THEN run
  ELSE IF n <= 1 THEN simulate_loop(run)
  ELSE iterate(iterate(run, n \div 2), n - (n \div 2))

\* the loop takes at most steps_until_unstable passes that call step and one
\* more that returns
simulate_tracked(tracked) ==
  iterate([tracked |-> tracked, step_count |-> 0, step_calls |-> 0,
           returned |-> FALSE, result |-> FALSE],
          tracked.sim.steps_until_unstable + 1)

simulate(sim) ==
  LET run == simulate_tracked(Tracked(sim, {}))
  IN [sim |-> run.tracked.sim, result |-> run.result]

value_for_index(sim, value) == At(sim.values, value)

\* for i in 0..input_values.len() { simulator.set_input(i, input_values[i]) }
RECURSIVE set_inputs_from(_, _, _)
set_inputs_from(sim, input_values, i) ==
  IF i >= Len(input_values) THEN sim
  ELSE set_inputs_from(set_input(sim, i, At(input_values, i)), input_values, i + 1)

evaluate_circuit_returns_store(c, input_values) ==
  LET simulator == simulate(set_inputs_from(Simulator_new(c), input_values, 0)).sim
  IN [output_values |->
        [k \in 1..Len(c.outputs) |-> value_for_index(simulator, c.outputs[k].value_index)],
      owned_values |-> simulator.values]

evaluate_circuit_skips_simulate(c, input_values) ==
  LET simulator == set_inputs_from(Simulator_new(c), input_values, 0)
  IN [output_values |->
        [k \in 1..Len(c.outputs) |-> value_for_index(simulator, c.outputs[k].value_index)],
      owned_values |-> <<>>]

\* the Circuit arm as it would be if a nested simulate that returned false
\* made evaluate return no output value
evaluate_circuit_unconverged_empty(c, input_values) ==
  LET after == simulate(set_inputs_from(Simulator_new(c), input_values, 0))
  IN [output_values |->
        IF after.result
        THEN [k \in 1..Len(c.outputs) |-> value_for_index(after.sim, c.outputs[k].value_index)]
        ELSE <<>>,
      owned_values |-> <<>>]

evaluate_circuit(c, input_values) ==
  LET simulator == simulate(set_inputs_from(Simulator_new(c), input_values, 0)).sim
  IN [output_values |->
        [k \in 1..Len(c.outputs) |-> value_for_index(simulator, c.outputs[k].value_index)],
      owned_values |-> <<>>]

\* the FlipFlopRS arm as it would be if the both-On call cleared the stored bit
flip_flop_rs_both_on_clears(input_values, owned_values) ==
  IF At(input_values, 0) = On /\ At(input_values, 1) = On
  THEN [output_values |-> <<Off, Off>>, owned_values |-> <<Off>>]
  ELSE IF At(input_values, 0) = Off /\ At(input_values, 1) = Off
  THEN [output_values |-> <<At(owned_values, 0), not(At(owned_values, 0))>>,
        owned_values |-> owned_values]
  ELSE LET set == At(input_values, 0)
       IN [output_values |-> <<set, not(set)>>, owned_values |-> <<set>>]

\* the FlipFlopRS arm of evaluate: match (input_values[0], input_values[1])
flip_flop_rs_second_sets(input_values, owned_values) ==
  IF At(input_values, 0) = On /\ At(input_values, 1) = On
  THEN [output_values |-> <<Off, Off>>, owned_values |-> owned_values]
  ELSE IF At(input_values, 0) = Off /\ At(input_values, 1) = Off
  THEN [output_values |-> <<At(owned_values, 0), not(At(owned_values, 0))>>,
        owned_values |-> owned_values]
  ELSE LET set == At(input_values, 1)
       IN [output_values |-> <<set, not(set)>>, owned_values |-> <<set>>]

flip_flop_rs(input_values, owned_values) ==
  IF At(input_values, 0) = On /\ At(input_values, 1) = On
  THEN [output_values |-> <<Off, Off>>, owned_values |-> owned_values]
  ELSE IF At(input_values, 0) = Off /\ At(input_values, 1) = Off
  THEN [output_values |-> <<At(owned_values, 0), not(At(owned_values, 0))>>,
        owned_values |-> owned_values]
  ELSE LET set == At(input_values, 0)
       IN [output_values |-> <<set, not(set)>>, owned_values |-> <<set>>]

evaluate(function, input_values, owned_values) ==
  CASE function.tag = "And" ->
         [output_values |-> <<fold_and(On, input_values)>>, owned_values |-> <<>>]
    [] function.tag = "Or" ->
         [output_values |-> <<fold_or(Off, input_values)>>, owned_values |-> <<>>]
    [] function.tag = "Not" ->
         [output_values |-> <<not(At(input_values, 0))>>, owned_values |-> <<>>]
    [] function.tag = "Nand" ->
         [output_values |-> <<not(fold_and(On, input_values))>>, owned_values |-> <<>>]
    [] function.tag = "Nor" ->
         [output_values |-> <<not(fold_or(Off, input_values))>>, owned_values |-> <<>>]
    [] function.tag = "Circuit" -> evaluate_circuit(function.circuit, input_values)
    [] function.tag = "FlipFlopRS" -> flip_flop_rs(input_values, owned_values)
    [] function.tag = "FlipFlopJK" ->
         IF is_positiv_transient(At(owned_values, 1), At(input_values, 2))
         THEN LET value ==
                    IF At(input_values, 0) = On /\ At(input_values, 1) = On
                    THEN not(At(owned_values, 0))
                    ELSE IF At(input_values, 0) = On THEN On
                    ELSE IF At(input_values, 1) = On THEN Off
                    ELSE At(owned_values, 0)
              IN [output_values |-> <<value, not(value)>>,
                  owned_values |-> <<value, At(input_values, 2)>>]
         ELSE [output_values |-> <<At(owned_values, 0), not(At(owned_values, 0))>>,
               owned_values |-> <<At(owned_values, 0), At(input_values, 2)>>]
    [] function.tag = "FlipFlopD" ->
         IF is_positiv_transient(At(owned_values, 1), At(input_values, 1))
         THEN [output_values |-> <<At(input_values, 0), not(At(input_values, 0))>>,
               owned_values |-> <<At(input_values, 0), At(input_values, 1)>>]
         ELSE [output_values |-> <<At(owned_values, 0), not(At(owned_values, 0))>>,
               owned_values |-> <<At(owned_values, 0), At(input_values, 1)>>]
    [] function.tag = "FlipFlopT" ->
         IF is_positiv_transient(At(owned_values, 1), At(input_values, 1))
            /\ At(input_values, 0) = On
         THEN [output_values |-> <<not(At(owned_values, 0)), At(owned_values, 0)>>,
               owned_values |-> <<not(At(owned_values, 0)), At(input_values, 1)>>]
         ELSE [output_values |-> <<At(owned_values, 0), not(At(owned_values, 0))>>,
               owned_values |-> <<At(owned_values, 0), At(input_values, 1)>>]

\* ---------------------------------------------------------------- circuits
\* two inputs wired into an And gate whose output feeds one output
AndCircuit ==
  add_output(add_component(add_input(add_input(Circuit_new)), And, <<0, 1>>), 2)

\* a single Not gate whose output index is also its input index
NotLoop ==
  add_output(add_component(Circuit_new, Not, <<0>>), 0)

\* one input (index 0) and one two-input gate fed by the input and by its
\* own output (index 1)
FeedbackCircuit(function) ==
  add_output(add_component(add_input(Circuit_new), function, <<0, 1>>), 1)

NandFeedback == FeedbackCircuit(Nand)

FeedbackCircuits ==
  {FeedbackCircuit(function) : function \in {And, Or, Nand, Nor}}

\* input 0 -> Not -> index 1; index 1 is read by a Not and by an Or, index 0
\* by the first Not and by the Or
FanOutCircuit ==
  LET c0 == add_input(Circuit_new)
      c1 == add_component(c0, Not, <<0>>)
      c2 == add_component(c1, Not, <<1>>)
      c3 == add_component(c2, Or, <<0, 1>>)
  IN add_output(add_output(c3, 2), 3)

\* input 0 (index 0) -> Not -> index 1 -> output 0; input 1, added after the
\* gate (index 2), feeds output 1 directly
LateInputCircuit ==
  LET c0 == add_input(Circuit_new)
      c1 == add_component(c0, Not, <<0>>)
      c2 == add_input(c1)
  IN add_output(add_output(c2, 1), 2)

Circuits ==
  {AndCircuit, NotLoop, FanOutCircuit, LateInputCircuit} \cup FeedbackCircuits

\* ---------------------------------------------------------------- state
Sim == [circuit |-> circuit, values |-> values, changed_values |-> changed_values,
        steps_until_unstable |-> StepsUntilUnstable]

\* last describes the latest call for the properties: the operation and its
\* arguments, the value input_index's slot held before a set_input, the
\* outcome of a simulate (whether it returned, its result, its step_count and
\* the number of step calls it made), whether the call directly followed
\* Simulator::new (cold), and whether it directly followed a simulate that
\* returned true (after_stable), whether no step or simulate had run before
\* it since Simulator::new (fresh), and for a simulate the input that the call
\* directly before it raised from Off to On (input_index).
NoCall == [op |-> "new", input_index |-> -1, value |-> Off, stored |-> Off,
           result |-> FALSE, returned |-> TRUE, step_count |-> 0, step_calls |-> 0,
           cold |-> FALSE, after_stable |-> FALSE, fresh |-> FALSE]

\* evaluation describes the latest direct call of Function::evaluate (none
\* while a simulator is driven); twin is a second simulator driven in lock
\* step with the first (none while a single simulator is driven).
NoEvaluation == [function |-> [tag |-> "None"], input_values |-> <<>>,
                 owned_values |-> <<>>, output_values |-> <<>>,
                 new_owned_values |-> <<>>, threaded |-> FALSE,
                 reference |-> <<>>, phase |-> "left"]

NoTwin == [circuit |-> Circuit_new, values |-> <<>>, changed_values |-> <<>>,
           steps_until_unstable |-> StepsUntilUnstable]

\* no step and no simulate has run since Simulator::new
Fresh == last.op = "new" \/ (last.op = "set_input" /\ last.fresh)

\* the input the latest call raised from Off to On (-1 if it raised none)
Raised ==
  IF last.op = "set_input" /\ last.stored = Off /\ last.value = On
  THEN last.input_index ELSE -1

JustSimulated == last.op = "simulate"

ReturnedTrue == JustSimulated /\ last.returned /\ last.result

\* Scenario A, followed on the And circuit: both inputs set On, simulate,
\* one input set Off, simulate.  Any other call leaves the scenario.
ScenarioAfterSetInput(phase, sim, input_index, value) ==
  LET other == At(sim.values, At(sim.circuit.inputs, 1 - input_index).value_index)
  IN CASE phase = "start" /\ value = On /\ other = Off -> "one_on"
       [] phase = "one_on" /\ value = On /\ other = On -> "both_on"
       [] phase = "settled_on" /\ value = Off /\ other = On -> "one_off"
       [] OTHER -> "left"

ScenarioAfterSimulate(phase) ==
  CASE phase = "both_on" -> "settled_on"
    [] phase = "one_off" -> "settled_off"
    [] OTHER -> "left"

Init ==
  /\ circuit \in Circuits
  /\ values = Simulator_new(circuit).values
  /\ changed_values = Simulator_new(circuit).changed_values
  /\ last = NoCall
  /\ unseen = {}
  /\ scenario = IF circuit = AndCircuit THEN "start" ELSE "left"
  /\ evaluation = NoEvaluation
  /\ twin = NoTwin

Explored == Len(changed_values) <= circuit.value_list_len + MaxQueue

MayGrow == Len(changed_values) < circuit.value_list_len + MaxQueue

SetInput(input_index, value) ==
  /\ MayGrow
  /\ LET after == set_input(Sim, input_index, value)
     IN /\ values' = after.values
        /\ changed_values' = after.changed_values
        /\ unseen' = ObserveSetInput(Sim, input_index, value, unseen)
        /\ scenario' = IF scenario = "left" THEN "left"
                       ELSE ScenarioAfterSetInput(scenario, Sim, input_index, value)
  /\ last' = [NoCall EXCEPT !.op = "set_input", !.input_index = input_index,
                            !.value = value,
                            !.stored = At(values, At(circuit.inputs, input_index).value_index),
                            !.fresh = Fresh]
  /\ UNCHANGED <<circuit, evaluation, twin>>

Step ==
  /\ Explored
  /\ LET after == step(Tracked(Sim, unseen))
     IN /\ values' = after.sim.values
        /\ changed_values' = after.sim.changed_values
        /\ unseen' = after.unseen
  /\ last' = [NoCall EXCEPT !.op = "step", !.after_stable = ReturnedTrue]
  /\ scenario' = "left"
  /\ UNCHANGED <<circuit, evaluation, twin>>

Simulate ==
  /\ Explored
  /\ LET run == simulate_tracked(Tracked(Sim, unseen))
     IN /\ values' = run.tracked.sim.values
        /\ changed_values' = run.tracked.sim.changed_values
        /\ unseen' = run.tracked.unseen
        /\ last' = [NoCall EXCEPT !.op = "simulate", !.result = run.result,
                                  !.returned = run.returned,
                                  !.step_count = run.step_count,
                                  !.step_calls = run.step_calls,
                                  !.cold = (last.op = "new"),
                                  !.after_stable = ReturnedTrue,
                                  !.fresh = Fresh,
                                  !.input_index = Raised]
  /\ scenario' = ScenarioAfterSimulate(scenario)
  /\ UNCHANGED <<circuit, evaluation, twin>>

Next ==
  \/ \E input_index \in 0..(Len(circuit.inputs) - 1), value \in Value :
       SetInput(input_index, value)
  \/ Step
  \/ Simulate

Spec == Init /\ [][Next]_vars

\* ---------------------------------------------------------------- properties
get_output_value(sim, output_index) ==
  At(sim.values, At(sim.circuit.outputs, output_index).value_index)

\* a component is stable when re-evaluating it would change none of its outputs
ComponentStable(sim, component_index) ==
  component_result(sim, At(sim.circuit.components, component_index)).value_changes = <<>>

LogicallyStable(sim) ==
  \A component_index \in 0..(Len(sim.circuit.components) - 1) :
    ComponentStable(sim, component_index)

\* C1: whenever simulate returns true, re-evaluating any component on the
\* stored input and owned values yields the stored output values.
C1_StableWhenTrue == ReturnedTrue => LogicallyStable(Sim)

\* C2: on a freshly constructed simulator of the single self-fed Not gate,
\* simulate returns false after exactly the ceiling of steps.
C2_NotLoopReturnsFalse ==
  (circuit = NotLoop /\ JustSimulated /\ last.cold) =>
    (last.returned /\ ~last.result /\ last.step_calls = StepsUntilUnstable)

\* C3: simulate returns true iff the worklist is empty when it returns, and
\* false iff the ceiling was exceeded with the worklist still non-empty; it
\* always returns a result.
C3_ResultClassifies ==
  JustSimulated =>
    /\ last.returned
    /\ last.result <=> (changed_values = <<>>)
    /\ ~last.result <=> (last.step_count > StepsUntilUnstable /\ changed_values /= <<>>)

C3_Witness ==
  JustSimulated /\ last.returned /\ ~last.result /\ changed_values /= <<>>

\* C4: every simulate call returns, after at most ceiling calls of step, also
\* on circuits with feedback whose worklist never drains.
C4_SimulateTerminates ==
  JustSimulated => (last.returned /\ last.step_calls <= StepsUntilUnstable)

C4_Witness ==
  /\ circuit = NandFeedback
  /\ JustSimulated /\ last.returned /\ ~last.result
  /\ last.step_calls = StepsUntilUnstable

\* C5: set_input(i, v) with v different from the stored value overwrites
\* exactly the input's slot and appends its value index once to the back of
\* the worklist; nothing else changes.
C5_SetInputChange ==
  [][(last'.op = "set_input" /\ last'.stored /= last'.value) =>
       LET value_index == At(circuit.inputs, last'.input_index).value_index
       IN /\ values' = [values EXCEPT ![value_index + 1] = last'.value]
          /\ changed_values' = Append(changed_values, value_index)
          /\ circuit' = circuit]_vars

C5_Witness ==
  /\ last.op = "set_input" /\ last.stored /= last.value
  /\ Len(changed_values) >= 2
  /\ \E k \in 1..Len(values) : values[k] = On /\ k - 1 /= At(circuit.inputs, last.input_index).value_index

\* C6: set_input(i, v) when the slot already holds v changes neither the
\* value store nor the worklist.
C6_SetInputIdempotent ==
  [][(last'.op = "set_input" /\ last'.stored = last'.value) =>
       (values' = values /\ changed_values' = changed_values /\ circuit' = circuit)]_vars

C6_Witness ==
  last.op = "set_input" /\ last.stored = last.value /\ last.value = On

\* C7: after simulate returns true, a further step leaves the worklist empty
\* and the value store unchanged, and a further simulate returns true with
\* all values unchanged.
C7_Quiescence ==
  [][(ReturnedTrue /\ last'.op \in {"step", "simulate"}) =>
       /\ values' = values
       /\ changed_values' = <<>>
       /\ last'.op = "simulate" => (last'.returned /\ last'.result)]_vars

C7_Witness ==
  /\ last.op \in {"step", "simulate"} /\ last.after_stable
  /\ \E k \in 1..Len(values) : values[k] = On

\* C8: when the value at an index that two components list as an input
\* changes, both are re-evaluated before simulate returns true.
C8_FanOutReevaluated ==
  ReturnedTrue =>
    \A p \in unseen : Cardinality(Readers(circuit, p[1])) < 2

\* C9: Scenario A.  With both inputs of the And circuit set On, simulate
\* returns true and the output reads On; after one input is then set Off,
\* simulate returns true and the output reads Off.
C9_ScenarioA ==
  /\ scenario = "settled_on" => (ReturnedTrue /\ get_output_value(Sim, 0) = On)
  /\ scenario = "settled_off" => (ReturnedTrue /\ get_output_value(Sim, 0) = Off)

C9_Witness == scenario = "settled_off"

\* C10: right after Simulator::new every slot is Off, the store has
\* value_list_len slots and the worklist is 0..value_list_len-1 ascending.
C10_ColdStart ==
  last.op = "new" =>
    /\ Len(values) = circuit.value_list_len
    /\ \A k \in 1..Len(values) : values[k] = Off
    /\ Len(changed_values) = circuit.value_list_len
    /\ \A k \in 1..Len(changed_values) : changed_values[k] = k - 1

C10_Witness == last.op = "new" /\ circuit.value_list_len >= 3

\* ------------------------------------------- direct calls of Function::evaluate
\* longest input tuple handed to a gate, and longest owned-values argument
\* handed to a function that owns nothing
MaxArity == 3

MaxOwned == 2

Tuples(n) == [1..n -> Value]

\* two inputs (T at index 0, clock at index 1) wired into a FlipFlopT whose
\* first output (index 2) feeds one output; the flip-flop owns indices 4, 5
ToggleCircuit ==
  add_output(add_component(add_input(add_input(Circuit_new)), FlipFlopT, <<0, 1>>), 2)

DirectFunctions ==
  {And, Or, Nand, Nor, Not, FlipFlopRS, FlipFlopJK, FlipFlopD, FlipFlopT,
   FunctionCircuit(AndCircuit), FunctionCircuit(ToggleCircuit),
   FunctionCircuit(LateInputCircuit)}

\* the tuples evaluate accepts without indexing out of range: any non-empty
\* tuple for a fold, input_value_count() values otherwise
InputTuples(function) ==
  IF function.tag \in {"And", "Or", "Nand", "Nor"}
  THEN UNION {Tuples(n) : n \in 1..MaxArity}
  ELSE Tuples(input_value_count(function))

OwnedTuples(function) ==
  IF owned_value_count(function) = 0
  THEN UNION {Tuples(n) : n \in 0..MaxOwned}
  ELSE Tuples(owned_value_count(function))

\* Scenario B, followed on the RS flip-flop under both readings of its input
\* order: (Off, On), (Off, Off), (On, On) and (On, Off), (Off, Off), (On, On),
\* each call after the first fed the owned values the previous one returned.
PhaseAfterEvaluate(phase, function, input_values, threaded) ==
  CASE function # FlipFlopRS -> "left"
    [] function = FlipFlopRS /\ input_values = <<Off, On>> -> "rs1"
    [] function = FlipFlopRS /\ input_values = <<On, Off>> -> "sr1"
    [] function = FlipFlopRS /\ input_values = <<Off, Off>> ->
         IF threaded /\ phase = "rs1" THEN "rs2"
         ELSE IF threaded /\ phase = "sr1" THEN "sr2" ELSE "left"
    [] function = FlipFlopRS /\ input_values = <<On, On>> ->
         IF threaded /\ phase = "rs2" THEN "rs3"
         ELSE IF threaded /\ phase = "sr2" THEN "sr3" ELSE "left"

InitEvaluate ==
  /\ evaluation \in {[NoEvaluation EXCEPT !.function = function] :
                       function \in DirectFunctions}
  /\ circuit = Circuit_new
  /\ values = <<>>
  /\ changed_values = <<>>
  /\ last = NoCall
  /\ unseen = {}
  /\ scenario = "left"
  /\ twin = NoTwin

Called == evaluation.output_values # <<>>

\* function.evaluate(&input_values, &owned_values); remember says whether
\* this call becomes the one later calls are compared with
Evaluate(input_values, owned_values, remember) ==
  LET function == evaluation.function
      result == evaluate(function, input_values, owned_values)
      threaded == Called /\ owned_values = evaluation.new_owned_values
  IN /\ evaluation' =
          [function |-> function, input_values |-> input_values,
           owned_values |-> owned_values,
           output_values |-> result.output_values,
           new_owned_values |-> result.owned_values,
           threaded |-> threaded,
           reference |-> IF remember /\ function.tag = "Circuit"
                         THEN <<input_values, result.output_values>>
                         ELSE evaluation.reference,
           phase |-> PhaseAfterEvaluate(evaluation.phase, function,
                                        input_values, threaded)]
     /\ UNCHANGED <<circuit, values, changed_values, last, unseen, scenario, twin>>

NextEvaluate ==
  \E input_values \in InputTuples(evaluation.function),
     owned_values \in OwnedTuples(evaluation.function),
     remember \in IF evaluation.function.tag = "Circuit" THEN BOOLEAN ELSE {FALSE} :
       Evaluate(input_values, owned_values, remember)

SpecEvaluate == InitEvaluate /\ [][NextEvaluate]_vars

AllOn(input_values) == \A i \in 1..Len(input_values) : input_values[i] = On

SomeOn(input_values) == \E i \in 1..Len(input_values) : input_values[i] = On

\* C11: And, Or, Nand, Nor over a tuple of 1..MaxArity values and Not over one
\* value return exactly one output and no owned value, whatever owned values
\* they were handed: And is On iff all inputs are On, Or is On iff some input
\* is On, Nand and Nor are their complements, Not is the complement of its input.
C11_GateTruthTables ==
  LET tag == evaluation.function.tag
      input_values == evaluation.input_values
      output == evaluation.output_values[1]
  IN Called /\ tag \in {"And", "Or", "Nand", "Nor", "Not"} =>
       /\ Len(evaluation.output_values) = 1
       /\ evaluation.new_owned_values = <<>>
       /\ tag = "And" => (output = On <=> AllOn(input_values))
       /\ tag = "Or" => (output = On <=> SomeOn(input_values))
       /\ tag = "Nand" => (output = Off <=> AllOn(input_values))
       /\ tag = "Nor" => (output = Off <=> SomeOn(input_values))
       /\ tag = "Not" => (output = On <=> input_values[1] = Off)

C11_Witness ==
  /\ Called
  /\ evaluation.function = Nor
  /\ Len(evaluation.input_values) = MaxArity
  /\ ~SomeOn(evaluation.input_values)
  /\ evaluation.owned_values # <<>>
  /\ evaluation.output_values = <<On>>

\* the owned values the previous call returned: [state, clock sample]
StoredState == evaluation.new_owned_values[1]

StoredClock == evaluation.new_owned_values[2]

Complement(a) == IF a = On THEN Off ELSE On

\* C12: over calls of FlipFlopD each fed the owned values the previous one
\* returned, the stored state after a call is the D input when the stored
\* clock sample was Off and the call's clock input is On, and is unchanged
\* otherwise.
C12_FlipFlopDLaw ==
  [][evaluation'.function = FlipFlopD /\ evaluation'.threaded =>
       evaluation'.new_owned_values[1] =
         IF StoredClock = Off /\ evaluation'.input_values[2] = On
         THEN evaluation'.input_values[1]
         ELSE StoredState]_vars

C12_Witness ==
  /\ evaluation.function = FlipFlopD
  /\ evaluation.threaded
  /\ evaluation.owned_values = <<Off, Off>>
  /\ evaluation.input_values = <<On, On>>
  /\ evaluation.new_owned_values[1] = On

\* C13: over calls of FlipFlopT each fed the owned values the previous one
\* returned, the stored state is complemented exactly when the stored clock
\* sample was Off, the call's clock input is On and its T input is On, and is
\* unchanged otherwise.
C13_FlipFlopTLaw ==
  [][evaluation'.function = FlipFlopT /\ evaluation'.threaded =>
       evaluation'.new_owned_values[1] =
         IF StoredClock = Off /\ evaluation'.input_values[2] = On
            /\ evaluation'.input_values[1] = On
         THEN Complement(StoredState)
         ELSE StoredState]_vars

C13_Witness ==
  /\ evaluation.function = FlipFlopT
  /\ evaluation.threaded
  /\ evaluation.owned_values = <<On, Off>>
  /\ evaluation.input_values = <<On, On>>
  /\ evaluation.new_owned_values[1] = Off

\* C14: over calls of FlipFlopJK each fed the owned values the previous one
\* returned, on a positive clock edge the stored state toggles when J and K
\* are On, becomes On when only J is On, becomes Off when only K is On and is
\* unchanged when neither is; without a positive edge it is unchanged.
C14_FlipFlopJKLaw ==
  [][evaluation'.function = FlipFlopJK /\ evaluation'.threaded =>
       LET j == evaluation'.input_values[1]
           k == evaluation'.input_values[2]
           edge == StoredClock = Off /\ evaluation'.input_values[3] = On
           state == evaluation'.new_owned_values[1]
       IN /\ edge /\ j = On /\ k = On => state = Complement(StoredState)
          /\ edge /\ j = On /\ k = Off => state = On
          /\ edge /\ j = Off /\ k = On => state = Off
          /\ edge /\ j = Off /\ k = Off => state = StoredState
          /\ ~edge => state = StoredState]_vars

C14_Witness ==
  /\ evaluation.function = FlipFlopJK
  /\ evaluation.threaded
  /\ evaluation.owned_values = <<On, Off>>
  /\ evaluation.input_values = <<On, On, On>>
  /\ evaluation.new_owned_values[1] = Off

\* C15: Scenario B as stated, the two inputs read as (R, S): the call
\* (Off, On) leaves the stored state and the first output On, a following
\* (Off, Off) keeps the stored state On, a following (On, On) returns both
\* outputs Off.
C15_ScenarioB ==
  /\ evaluation.phase = "rs1" =>
       evaluation.new_owned_values[1] = On /\ evaluation.output_values[1] = On
  /\ evaluation.phase = "rs2" => evaluation.new_owned_values[1] = On
  /\ evaluation.phase = "rs3" => evaluation.output_values = <<Off, Off>>

\* C15 amended: the first input is the one that sets: the call (On, Off)
\* leaves the stored state and the first output On, a following (Off, Off)
\* keeps the stored state On, a following (On, On) returns both outputs Off.
C15_ScenarioBFirstSets ==
  /\ evaluation.phase = "sr1" =>
       evaluation.new_owned_values[1] = On /\ evaluation.output_values[1] = On
  /\ evaluation.phase = "sr2" => evaluation.new_owned_values[1] = On
  /\ evaluation.phase = "sr3" => evaluation.output_values = <<Off, Off>>

C15_Witness ==
  /\ evaluation.phase = "sr3"
  /\ evaluation.threaded
  /\ evaluation.new_owned_values = <<On>>
  /\ evaluation.output_values = <<Off, Off>>

\* C17: a Circuit function returns no owned value, and a call returns the
\* outputs an earlier call with equal inputs returned, whatever owned values
\* either call was handed and whatever calls happened in between, also when
\* the sub-circuit holds a flip-flop.
C17_NestedStateless ==
  Called /\ evaluation.function.tag = "Circuit" =>
    /\ evaluation.new_owned_values = <<>>
    /\ evaluation.reference # <<>> /\ evaluation.reference[1] = evaluation.input_values
         => evaluation.output_values = evaluation.reference[2]

C17_Witness ==
  /\ evaluation.function = FunctionCircuit(ToggleCircuit)
  /\ evaluation.reference = <<evaluation.input_values, evaluation.output_values>>
  /\ evaluation.input_values = <<On, On>>
  /\ evaluation.owned_values = <<On, Off>>
  /\ evaluation.output_values = <<On>>

\* ------------------------------------------------- two simulators in lock step
\* two inputs wired into a Circuit function that wraps AndCircuit; its output
\* (index 2) feeds one output
NestedAndCircuit ==
  add_output(add_component(add_input(add_input(Circuit_new)),
                           FunctionCircuit(AndCircuit), <<0, 1>>), 2)

InitPair ==
  /\ circuit = NestedAndCircuit
  /\ values = Simulator_new(circuit).values
  /\ changed_values = Simulator_new(circuit).changed_values
  /\ twin = Simulator_new(AndCircuit)
  /\ last = NoCall
  /\ unseen = {}
  /\ scenario = "left"
  /\ evaluation = NoEvaluation

\* the same call made on both simulators
PairSetInput(input_index, value) ==
  /\ MayGrow
  /\ LET after == set_input(Sim, input_index, value)
     IN /\ values' = after.values
        /\ changed_values' = after.changed_values
  /\ twin' = set_input(twin, input_index, value)
  /\ last' = [NoCall EXCEPT !.op = "set_input", !.input_index = input_index,
                            !.value = value]
  /\ UNCHANGED <<circuit, unseen, scenario, evaluation>>

PairStep ==
  /\ Explored
  /\ LET after == step(Tracked(Sim, {})).sim
     IN /\ values' = after.values
        /\ changed_values' = after.changed_values
  /\ twin' = step(Tracked(twin, {})).sim
  /\ last' = [NoCall EXCEPT !.op = "step"]
  /\ UNCHANGED <<circuit, unseen, scenario, evaluation>>

PairSimulate ==
  /\ Explored
  /\ LET after == simulate(Sim)
     IN /\ values' = after.sim.values
        /\ changed_values' = after.sim.changed_values
        /\ last' = [NoCall EXCEPT !.op = "simulate", !.result = after.result]
  /\ twin' = simulate(twin).sim
  /\ UNCHANGED <<circuit, unseen, scenario, evaluation>>

NextPair ==
  \/ \E input_index \in 0..(Len(circuit.inputs) - 1), value \in Value :
       PairSetInput(input_index, value)
  \/ PairStep
  \/ PairSimulate

SpecPair == InitPair /\ [][NextPair]_vars

\* C16: after any sequence of calls made alike on a parent whose only
\* component is a Circuit function wrapping the two-input And sub-circuit and
\* on a parent that uses the primitive And in its place, both parents show
\* the same output value.
C16_ScenarioC ==
  get_output_value(Sim, 0) = get_output_value(twin, 0)

C16_Witness ==
  /\ JustSimulated
  /\ value_for_index(Sim, 0) = On
  /\ value_for_index(Sim, 1) = On
  /\ get_output_value(Sim, 0) = On
  /\ get_output_value(twin, 0) = On

\* ------------------------------------------------------ building a circuit
\* most value slots and most outputs a built circuit is given
MaxSlots == 4

MaxOutputs == 2

BuildFunctions == {And, Not, FlipFlopRS, FlipFlopD}

\* the latest construction call: its arguments, what it returned and the
\* circuit it was made on
NoBuild == [op |-> "new", value_index |-> 0, function |-> And,
            input_value_indices |-> <<>>, returned |-> <<>>, before |-> Circuit_new]

InitBuild ==
  /\ circuit = Circuit_new
  /\ values = Simulator_new(Circuit_new).values
  /\ changed_values = Simulator_new(Circuit_new).changed_values
  /\ last = NoBuild
  /\ unseen = {}
  /\ scenario = "left"
  /\ evaluation = NoEvaluation
  /\ twin = NoTwin

\* Simulator::add_input: the circuit's add_input, then the new slot's index
\* is pushed onto the worklist
AddInput ==
  /\ circuit.value_list_len < MaxSlots
  /\ circuit' = add_input(circuit)
  /\ changed_values' = Append(changed_values, add_input_returns(circuit)[2])
  /\ last' = [NoBuild EXCEPT !.op = "add_input", !.before = circuit,
                             !.returned = add_input_returns(circuit)]
  /\ UNCHANGED <<values, unseen, scenario, evaluation, twin>>

AddOutput(value_index) ==
  /\ Len(circuit.outputs) < MaxOutputs
  /\ circuit' = add_output(circuit, value_index)
  /\ last' = [NoBuild EXCEPT !.op = "add_output", !.before = circuit,
                             !.value_index = value_index,
                             !.returned = add_output_returns(circuit, value_index)]
  /\ UNCHANGED <<values, changed_values, unseen, scenario, evaluation, twin>>

AddComponent(function, input_value_indices) ==
  /\ circuit.value_list_len + output_value_count(function)
       + owned_value_count(function) <= MaxSlots
  /\ circuit' = add_component(circuit, function, input_value_indices)
  /\ last' = [NoBuild EXCEPT !.op = "add_component", !.before = circuit,
                             !.function = function,
                             !.input_value_indices = input_value_indices,
                             !.returned = add_component_returns(circuit, function,
                                                                input_value_indices)]
  /\ UNCHANGED <<values, changed_values, unseen, scenario, evaluation, twin>>

\* the input lists handed to add_component: input_value_count() copies of
\* one index
BuildInputs(function) ==
  {[k \in 1..input_value_count(function) |-> index] : index \in 0..1}

\* the indices handed to add_output: the first slot, the last slot and the
\* first index past the slots
BuildOutputs(c) ==
  {value_index \in {0, c.value_list_len - 1, c.value_list_len} : value_index >= 0}

NextBuild ==
  \/ AddInput
  \/ \E value_index \in BuildOutputs(circuit) : AddOutput(value_index)
  \/ \E function \in BuildFunctions :
       \E input_value_indices \in BuildInputs(function) :
         AddComponent(function, input_value_indices)

SpecBuild == InitBuild /\ [][NextBuild]_vars

\* C18: add_output(value_index) with value_index >= value_list_len leaves the
\* circuit unchanged; with value_index < value_list_len it appends one Output
\* wrapping that index and returns the previous number of outputs.
C18_AddOutputFailsFast ==
  last.op = "add_output" =>
    IF last.value_index >= last.before.value_list_len
    THEN circuit = last.before
    ELSE /\ circuit = [last.before EXCEPT
                         !.outputs = Append(@, [value_index |-> last.value_index])]
         /\ last.returned = Len(last.before.outputs)

\* the indices start, start + 1, ..., start + count - 1 in order
Consecutive(start, count) == [k \in 1..count |-> start + k - 1]

RECURSIVE ComponentIndices(_)
ComponentIndices(components) ==
  IF components = <<>> THEN <<>>
  ELSE Head(components).output_value_indices
         \o Head(components).owned_value_indices
         \o ComponentIndices(Tail(components))

AllocatedIndices(c) ==
  [k \in 1..Len(c.inputs) |-> c.inputs[k].value_index] \o ComponentIndices(c.components)

NoDuplicates(indices) ==
  \A i, j \in 1..Len(indices) : indices[i] = indices[j] => i = j

C30_ArityConsistency ==
  LET function == evaluation.function
  IN /\ Called
     /\ Len(evaluation.input_values) = input_value_count(function)
     /\ Len(evaluation.owned_values) = owned_value_count(function)
     => /\ Len(evaluation.output_values) = output_value_count(function)
        /\ Len(evaluation.new_owned_values) = owned_value_count(function)
        /\ function.tag = "Circuit" =>
             Len(evaluation.output_values) = Len(function.circuit.outputs)
        /\ function = FunctionCircuit(LateInputCircuit) =>
             evaluation.output_values =
               <<Complement(evaluation.input_values[1]), evaluation.input_values[2]>>

C30_Witness ==
  /\ Called
  /\ evaluation.function = FunctionCircuit(LateInputCircuit)
  /\ evaluation.input_values = <<Off, Off>>
  /\ evaluation.owned_values = <<>>
  /\ evaluation.output_values = <<On, Off>>

\* C29: in every state reached through the simulator's operations the value
\* store has exactly value_list_len slots, so every index held by an input,
\* an output, a component or a worklist entry addresses a slot of the store.
C29_StoreSize ==
  /\ Len(values) = circuit.value_list_len
  /\ \A k \in 1..Len(changed_values) : changed_values[k] < Len(values)
  /\ \A k \in 1..Len(circuit.inputs) : circuit.inputs[k].value_index < Len(values)

\* ------------------------------------------------------------ steps in detail
Range(s) == {s[k] : k \in 1..Len(s)}

IsPrefix(s, t) == Len(s) <= Len(t) /\ SubSeq(t, 1, Len(s)) = s

\* C23: a step keeps the entries left after the pop in place and appends only
\* indices that are among them, and neither a step nor a simulate leaves an
\* index pending that was not pending before it.
C23_EnqueueGuard ==
  [][/\ last'.op = "step" /\ changed_values # <<>> =>
          /\ IsPrefix(Tail(changed_values), changed_values')
          /\ Range(changed_values') \subseteq Range(Tail(changed_values))
     /\ last'.op \in {"step", "simulate"} =>
          Range(changed_values') \subseteq Range(changed_values)]_vars

C23_Witness ==
  /\ circuit = FanOutCircuit
  /\ last.op = "step"
  /\ Len(changed_values) > Cardinality(Range(changed_values))
  /\ changed_values[Len(changed_values)] = 3

\* the changes (index, value) of the outputs found differing while the
\* components of components_to_update are evaluated one after the other
RECURSIVE StepChanges(_, _)
StepChanges(sim, components_to_update) ==
  IF components_to_update = <<>> THEN <<>>
  ELSE LET component == At(sim.circuit.components, Head(components_to_update))
           result == component_result(sim, component)
       IN result.value_changes
            \o StepChanges(commit_result(sim, component, result), Tail(components_to_update))

\* the simulator once the front entry has been popped
Popped(sim) == [sim EXCEPT !.changed_values = Tail(@)]

\* the slots owned by the components of components_to_update
OwnedSlots(sim, components_to_update) ==
  UNION {Range(At(sim.circuit.components, components_to_update[k]).owned_value_indices) :
           k \in 1..Len(components_to_update)}

\* C22: in a step the stored value changes at exactly the output slots
\* found differing, and the index of every differing output slot is appended
\* to the back of the worklist.
C22_StepWritesAndEnqueues ==
  [][last'.op = "step" /\ changed_values # <<>> =>
       LET components_to_update == find_components_by_input(Sim, Head(changed_values))
           changes == StepChanges(Popped(Sim), components_to_update)
           changed == {changes[k].index : k \in 1..Len(changes)}
       IN /\ \A index \in 0..(Len(values) - 1) :
               index \notin OwnedSlots(Sim, components_to_update) =>
                 (At(values', index) # At(values, index) => index \in changed)
          /\ \A k \in 1..Len(changes) :
               (\A later \in (k + 1)..Len(changes) : changes[later].index # changes[k].index)
                 => At(values', changes[k].index) = changes[k].value
          /\ changed_values' =
               Tail(changed_values) \o [k \in 1..Len(changes) |-> changes[k].index]]_vars

\* the simulator after the components of the set have each been evaluated
\* once, lowest component index first
RECURSIVE EvaluateAscending(_, _)
EvaluateAscending(sim, component_indices) ==
  IF component_indices = {} THEN sim
  ELSE LET first == CHOOSE i \in component_indices :
                      \A j \in component_indices : i <= j
           component == At(sim.circuit.components, first)
       IN EvaluateAscending(commit_result(sim, component, component_result(sim, component)),
                            component_indices \ {first})

\* the output and owned slots of the components of the set
WrittenSlots(c, component_indices) ==
  UNION {Range(At(c.components, i).output_value_indices)
           \cup Range(At(c.components, i).owned_value_indices) : i \in component_indices}

\* C24: a step on an empty worklist changes neither the store nor the
\* worklist; a step on a non-empty worklist removes the front entry and keeps
\* the others in order, evaluates each component that lists the popped index
\* among its inputs once, in component-index order, and leaves every slot
\* that is no output or owned slot of those components unchanged.
C24_StepFrame ==
  [][last'.op = "step" =>
       IF changed_values = <<>>
       THEN values' = values /\ changed_values' = <<>>
       ELSE LET readers == Readers(circuit, Head(changed_values))
                expected == EvaluateAscending(Popped(Sim), readers)
            IN /\ IsPrefix(Tail(changed_values), changed_values')
               /\ values' = expected.values
               /\ changed_values' = expected.changed_values
               /\ \A index \in 0..(Len(values) - 1) :
                    index \notin WrittenSlots(circuit, readers) =>
                      At(values', index) = At(values, index)]_vars

C24_Witness ==
  /\ circuit = FanOutCircuit
  /\ last.op = "step"
  /\ changed_values = <<1, 2, 3, 1, 3>>
  /\ values = <<Off, On, Off, On>>

\* ------------------------------------------------- circuits with flip-flops
\* a FlipFlopT (input 0 is T) clocked by its own second output (index 2)
SelfClockedCircuit ==
  add_output(add_component(add_input(Circuit_new), FlipFlopT, <<0, 2>>), 1)

\* three inputs (J, K, clock) wired into a FlipFlopJK whose first output
\* (index 3) feeds one output; the flip-flop owns indices 5, 6
JKCircuit ==
  add_output(add_component(add_input(add_input(add_input(Circuit_new))),
                           FlipFlopJK, <<0, 1, 2>>), 3)

ClockedCircuits == {ToggleCircuit, SelfClockedCircuit, JKCircuit, FanOutCircuit}

InitClocked ==
  /\ circuit \in ClockedCircuits
  /\ values = Simulator_new(circuit).values
  /\ changed_values = Simulator_new(circuit).changed_values
  /\ last = NoCall
  /\ unseen = {}
  /\ scenario = "left"
  /\ evaluation = NoEvaluation
  /\ twin = NoTwin

\* once a step or a simulate has run, inputs are set only while fewer than
\* MaxQueue entries are pending
ClockedMayGrow == Fresh \/ Len(changed_values) < MaxQueue

NextClocked ==
  \/ \E input_index \in 0..(Len(circuit.inputs) - 1), value \in Value :
       ClockedMayGrow /\ SetInput(input_index, value)
  \/ Step
  \/ Simulate

SpecClocked == InitClocked /\ [][NextClocked]_vars

\* the slots that belong to an Input
InputSlots(c) == {c.inputs[k].value_index : k \in 1..Len(c.inputs)}

\* C21: no step and no simulate changes the value of a slot that belongs to
\* an Input, and a step changes only output or owned slots of components
\* that list the popped index among their inputs.
C21_InputSlotsFrame ==
  [][/\ last'.op \in {"step", "simulate"} =>
          \A index \in InputSlots(circuit) : At(values', index) = At(values, index)
     /\ last'.op = "step" /\ changed_values # <<>> =>
          \A index \in 0..(Len(values) - 1) :
            At(values', index) # At(values, index) =>
              index \in WrittenSlots(circuit, Readers(circuit, Head(changed_values)))]_vars

C21_Witness ==
  /\ circuit = ToggleCircuit
  /\ last.op = "step"
  /\ values = <<On, On, On, Off, On, On>>

Clocked(function) == function.tag \in {"FlipFlopJK", "FlipFlopD", "FlipFlopT"}

\* the clock is the last input of a clocked flip-flop
ClockIndex(component) ==
  component.input_value_indices[Len(component.input_value_indices)]

\* the simulator as the component finds it during the step that pops the
\* front entry: the readers with a lower component index have been evaluated
AsFoundBy(sim, component_index) ==
  EvaluateAscending(Popped(sim),
                    {j \in Readers(sim.circuit, Head(sim.changed_values)) :
                       j < component_index})

\* C25: after a step has re-evaluated a clocked flip-flop, its stored clock
\* sample equals the value now stored at its clock input and its stored state
\* equals the state evaluate returned.
C25_OwnedStateCommits ==
  [][last'.op = "step" /\ changed_values # <<>> =>
       \A i \in Readers(circuit, Head(changed_values)) :
         LET component == At(circuit.components, i)
             returned == component_result(AsFoundBy(Sim, i), component).new_owned_values
         IN Clocked(component.function) =>
              /\ At(values', component.owned_value_indices[2])
                   = At(values', ClockIndex(component))
              /\ At(values', component.owned_value_indices[1]) = returned[1]]_vars

\* C25 amended: after a step has re-evaluated a clocked flip-flop, its stored
\* clock sample equals the value its clock input held when the flip-flop was
\* evaluated and its stored state equals the state evaluate returned.
C25_OwnedStateCommitsAsRead ==
  [][last'.op = "step" /\ changed_values # <<>> =>
       \A i \in Readers(circuit, Head(changed_values)) :
         LET component == At(circuit.components, i)
             found == AsFoundBy(Sim, i)
             returned == component_result(found, component).new_owned_values
         IN Clocked(component.function) =>
              /\ At(values', component.owned_value_indices[2])
                   = At(found.values, ClockIndex(component))
              /\ At(values', component.owned_value_indices[1]) = returned[1]]_vars

C25_Witness ==
  /\ circuit = ToggleCircuit
  /\ last.op = "step"
  /\ values = <<Off, On, Off, On, Off, On>>

\* the circuit's first component is a FlipFlopT or FlipFlopJK whose inputs
\* are all slots of Inputs, every input but the clock is On, and the latest
\* call was the set_input that raised the clock from Off to On
ClockJustRaised ==
  /\ circuit.components # <<>>
  /\ LET component == circuit.components[1]
         inputs == component.input_value_indices
     IN /\ component.function \in {FlipFlopT, FlipFlopJK}
        /\ Range(inputs) \subseteq InputSlots(circuit)
        /\ Raised # -1
        /\ At(circuit.inputs, Raised).value_index = ClockIndex(component)
        /\ \A k \in 1..(Len(inputs) - 1) : At(values, inputs[k]) = On

StateSlot == circuit.components[1].owned_value_indices[1]

SampleSlot == circuit.components[1].owned_value_indices[2]

\* C26: for a FlipFlopT with T On or a FlipFlopJK with J and K On, driven
\* directly by inputs, a set_input that raises the clock from Off to On
\* followed by simulate leaves the stored state complemented.
C26_SingleEdge ==
  [][ClockJustRaised /\ last'.op = "simulate" =>
       At(values', StateSlot) = Complement(At(values, StateSlot))]_vars

\* C26 amended: the same when the flip-flop's stored clock sample is Off at
\* the set_input.
C26_SingleEdgeFromSampledOff ==
  [][ClockJustRaised /\ At(values, SampleSlot) = Off /\ last'.op = "simulate" =>
       At(values', StateSlot) = Complement(At(values, StateSlot))]_vars

C26_Witness ==
  /\ circuit = ToggleCircuit
  /\ last.op = "simulate"
  /\ last.input_index = 1
  /\ ~last.fresh
  /\ last.step_calls >= 2
  /\ At(values, 0) = On
  /\ At(values, StateSlot) = Off

\* --------------------------------------------------- cold start of a circuit
\* every component's input indices are smaller than its own output indices
FeedForward(c) ==
  \A i \in 1..Len(c.components) :
    \A input \in Range(c.components[i].input_value_indices) :
      \A output \in Range(c.components[i].output_value_indices) : input < output

\* the two stored outputs of every clocked flip-flop are each other's complement
OutputsComplementary(sim) ==
  \A i \in 1..Len(sim.circuit.components) :
    LET component == sim.circuit.components[i]
    IN Clocked(component.function) =>
         At(sim.values, component.output_value_indices[2]) =
           Complement(At(sim.values, component.output_value_indices[1]))

\* C27: on a circuit whose components all read lower indices than they
\* write, the first simulate after Simulator::new, whatever set_input calls
\* came before it, when it returns true leaves every component's stored
\* outputs equal to its function of its stored inputs and owned values and
\* every clocked flip-flop's two outputs complementary.
C27_ColdStartSettles ==
  (last.op = "simulate" /\ last.fresh /\ last.result /\ FeedForward(circuit)) =>
    (LogicallyStable(Sim) /\ OutputsComplementary(Sim))

C27_Witness ==
  /\ circuit = ToggleCircuit
  /\ last.op = "simulate" /\ last.fresh /\ last.result
  /\ At(values, 0) = On /\ At(values, 1) = On
  /\ At(values, StateSlot) = On

\* ------------------------------------------------ worklists near the ceiling
\* n calls of set_input in a row, each complementing the value of the input
\* (none on a circuit without inputs), split in halves to keep the evaluation
\* shallow
RECURSIVE toggled(_, _, _)
toggled(sim, input_index, n) ==
  IF sim.circuit.inputs = <<>> \/ n <= 0 THEN sim
  ELSE IF n = 1
  THEN set_input(sim, input_index,
                 Complement(At(sim.values, At(sim.circuit.inputs, input_index).value_index)))
  ELSE toggled(toggled(sim, input_index, n \div 2), input_index, n - (n \div 2))

InitCeiling ==
  /\ circuit = AndCircuit
  /\ values = Simulator_new(circuit).values
  /\ changed_values = Simulator_new(circuit).changed_values
  /\ last = NoCall
  /\ unseen = {}
  /\ scenario = "left"
  /\ evaluation = NoEvaluation
  /\ twin = NoTwin

\* numbers of set_input calls that take a short worklist near the ceiling
Loads == (StepsUntilUnstable - 2 * MaxQueue)..(StepsUntilUnstable + MaxQueue)

CeilingSetInput(input_index, value) ==
  /\ last.op = "new" \/ Len(changed_values) < MaxQueue
  /\ LET after == set_input(Sim, input_index, value)
     IN /\ values' = after.values
        /\ changed_values' = after.changed_values
  /\ last' = [NoCall EXCEPT !.op = "set_input", !.input_index = input_index,
                            !.value = value,
                            !.stored = At(values, At(circuit.inputs, input_index).value_index),
                            !.fresh = Fresh]
  /\ UNCHANGED <<circuit, unseen, scenario, evaluation, twin>>

\* n calls of set_input that each change the input, before any step or
\* simulate has run or directly after a simulate that returned false
CeilingLoad(input_index, n) ==
  /\ Fresh \/ (last.op = "simulate" /\ ~last.result)
  /\ Len(changed_values) + n <= StepsUntilUnstable + MaxQueue
  /\ LET after == toggled(Sim, input_index, n)
         value == At(after.values, At(circuit.inputs, input_index).value_index)
     IN /\ values' = after.values
        /\ changed_values' = after.changed_values
        /\ last' = [NoCall EXCEPT !.op = "set_input", !.input_index = input_index,
                                  !.value = value,
                                  !.stored = Complement(value),
                                  !.fresh = Fresh]
  /\ UNCHANGED <<circuit, unseen, scenario, evaluation, twin>>

CeilingSimulate ==
  /\ LET run == simulate_tracked(Tracked(Sim, {}))
     IN /\ values' = run.tracked.sim.values
        /\ changed_values' = run.tracked.sim.changed_values
        /\ last' = [NoCall EXCEPT !.op = "simulate", !.result = run.result,
                                  !.returned = run.returned,
                                  !.step_count = run.step_count,
                                  !.step_calls = run.step_calls,
                                  !.cold = (last.op = "new"),
                                  !.after_stable = ReturnedTrue,
                                  !.fresh = Fresh,
                                  !.input_index = Raised]
  /\ UNCHANGED <<circuit, unseen, scenario, evaluation, twin>>

NextCeiling ==
  \/ \E input_index \in 0..(Len(circuit.inputs) - 1), value \in Value :
       CeilingSetInput(input_index, value)
  \/ \E input_index \in 0..(Len(circuit.inputs) - 1), n \in Loads :
       CeilingLoad(input_index, n)
  \/ CeilingSimulate

SpecCeiling == InitCeiling /\ [][NextCeiling]_vars

\* C28: a simulate call that returns false has made exactly ceiling calls of
\* step; one whose worklist is empty after exactly ceiling calls of step
\* returns true; and every call, also one that follows a call that returned
\* false, counts from zero: it makes at least as many calls of step as
\* entries were pending, up to the ceiling.
C28_CeilingBoundary ==
  [][last'.op = "simulate" =>
       /\ ~last'.result => last'.step_calls = StepsUntilUnstable
       /\ (last'.step_calls = StepsUntilUnstable /\ changed_values' = <<>>) => last'.result
       /\ last'.step_calls >= Min(Len(changed_values), StepsUntilUnstable)]_vars

C28_Witness ==
  /\ last.op = "simulate" /\ last.result
  /\ last.step_calls = StepsUntilUnstable
  /\ changed_values = <<>>

\* ------------------------------------------------------- the RS flip-flop
\* C31: every call of evaluate on a FlipFlopRS follows the output law: both
\* inputs On give both outputs Off and return the stored bit unchanged, so
\* that a following both-Off call fed the returned bit shows the state from
\* before the both-On call; both inputs Off give (stored, !stored) and return
\* the stored bit unchanged; exactly one input On overwrites the stored bit
\* and gives complementary outputs; the outputs are equal only when both
\* inputs are On.
C31_FlipFlopRSLaw ==
  [][evaluation'.function = FlipFlopRS =>
       LET input_values == evaluation'.input_values
           stored == evaluation'.owned_values
           output_values == evaluation'.output_values
           returned == evaluation'.new_owned_values
       IN /\ input_values = <<On, On>> =>
               (output_values = <<Off, Off>> /\ returned = stored)
          /\ input_values = <<Off, Off>> =>
               (output_values = <<stored[1], Complement(stored[1])>> /\ returned = stored)
          /\ input_values \in {<<On, Off>>, <<Off, On>>} =>
               /\ returned = <<input_values[1]>>
               /\ output_values[2] = Complement(output_values[1])
          /\ (output_values[1] = output_values[2]) <=> (input_values = <<On, On>>)
          /\ (Called /\ evaluation.input_values = <<On, On>>
                /\ evaluation'.threaded /\ input_values = <<Off, Off>>) =>
               output_values = <<evaluation.owned_values[1],
                                 Complement(evaluation.owned_values[1])>>]_vars

C31_Witness ==
  /\ evaluation.function = FlipFlopRS
  /\ evaluation.input_values = <<On, On>>
  /\ evaluation.threaded
  /\ evaluation.owned_values = <<On>>
  /\ evaluation.output_values = <<Off, Off>>
  /\ evaluation.new_owned_values = <<On>>

\* ------------------------------------------- parents of nested sub-circuits
\* input 0 -> Not -> index 1 -> a Circuit function wrapping the Nand that
\* reads its own output -> index 2 -> output 0
NestedFeedbackCircuit ==
  LET c0 == add_input(Circuit_new)
      c1 == add_component(c0, Not, <<0>>)
      c2 == add_component(c1, FunctionCircuit(NandFeedback), <<1>>)
  IN add_output(c2, 2)

NestedCircuits == {NestedAndCircuit, NestedFeedbackCircuit}

InitNested ==
  /\ circuit \in NestedCircuits
  /\ values = Simulator_new(circuit).values
  /\ changed_values = Simulator_new(circuit).changed_values
  /\ last = NoCall
  /\ unseen = {}
  /\ scenario = "left"
  /\ evaluation = NoEvaluation
  /\ twin = NoTwin

SpecNested == InitNested /\ [][NextClocked]_vars

\* the nested simulator of a Circuit-function component as evaluate builds
\* it, and the run of its simulate, for the input values the component finds
NestedNew(component) == Simulator_new(component.function.circuit)

NestedRun(sim, component) ==
  simulate_tracked(Tracked(set_inputs_from(NestedNew(component),
                                           component_reads(sim, component).input_values, 0),
                           {}))

\* C32: when a step evaluates a Circuit-function component, the nested store
\* starts all Off, the nested simulate returns after at most the ceiling of
\* steps, evaluate yields one value per sub-circuit output and no owned
\* value whether or not the nested simulate converged, and the step changes
\* no slot of the parent's store outside the outputs of the components it
\* evaluated.
C32_NestedIsolated ==
  [][last'.op = "step" /\ changed_values # <<>> =>
       LET readers == Readers(circuit, Head(changed_values))
       IN /\ \A i \in readers :
               LET component == At(circuit.components, i)
                   found == AsFoundBy(Sim, i)
                   run == NestedRun(found, component)
                   result == evaluate(component.function,
                                      component_reads(found, component).input_values, <<>>)
               IN component.function.tag = "Circuit" =>
                    /\ \A k \in 1..Len(NestedNew(component).values) :
                         NestedNew(component).values[k] = Off
                    /\ run.returned
                    /\ run.step_calls <= StepsUntilUnstable
                    /\ Len(result.output_values) = Len(component.function.circuit.outputs)
                    /\ result.owned_values = <<>>
                    /\ \A k \in 1..Len(result.output_values) :
                         result.output_values[k] =
                           value_for_index(run.tracked.sim,
                                           component.function.circuit.outputs[k].value_index)
          /\ \A index \in 0..(Len(values) - 1) :
               At(values', index) # At(values, index) =>
                 \E i \in readers : index \in Range(At(circuit.components, i).output_value_indices)
          /\ Len(values') = Len(values)]_vars

\* a step has evaluated the Circuit-function component on an input for which
\* the nested simulate does not converge
C32_Witness ==
  /\ circuit = NestedFeedbackCircuit
  /\ last.op = "step"
  /\ At(values, 1) = On
  /\ <<1, 1>> \notin unseen
  /\ ~NestedRun(Sim, At(circuit.components, 1)).result
  /\ ComponentStable(Sim, 1)

\* ------------------------------------------ two simulators of one circuit
\* twin is a second Simulator built from the same circuit, extended with the
\* result of its latest simulate
TwinCircuits == {AndCircuit, FanOutCircuit, NandFeedback, ToggleCircuit}

InitTwin ==
  /\ circuit \in TwinCircuits
  /\ values = Simulator_new(circuit).values
  /\ changed_values = Simulator_new(circuit).changed_values
  /\ twin = [circuit |-> circuit,
             values |-> Simulator_new(circuit).values,
             changed_values |-> Simulator_new(circuit).changed_values,
             steps_until_unstable |-> StepsUntilUnstable,
             result |-> FALSE]
  /\ last = NoCall
  /\ unseen = {}
  /\ scenario = "left"
  /\ evaluation = NoEvaluation

\* the orders in which a step can visit the components that read the popped
\* index, as it would be if the components were collected without an order
ComponentOrders_any_order(sim) ==
  IF sim.changed_values = <<>> THEN {<<>>}
  ELSE LET found == find_components_by_input(sim, Head(sim.changed_values))
           n == Len(found)
       IN {[k \in 1..n |-> found[p[k]]] :
             p \in {q \in [1..n -> 1..n] : \A a, b \in 1..n : q[a] = q[b] => a = b}}

\* the orders in which a step can visit the components that read the popped
\* index: the one order of the Vec that find_components_by_input collects
ComponentOrders(sim) ==
  IF sim.changed_values = <<>> THEN {<<>>}
  ELSE {find_components_by_input(sim, Head(sim.changed_values))}

\* step visiting components_to_update in the given order
StepIn(sim, components_to_update) ==
  IF sim.changed_values = <<>> THEN sim
  ELSE update_components(Tracked([sim EXCEPT !.changed_values = Tail(@)], {}),
                         components_to_update).sim

\* the same call made on both simulators
TwinSetInput(input_index, value) ==
  /\ MayGrow /\ ClockedMayGrow
  /\ LET after == set_input(Sim, input_index, value)
     IN /\ values' = after.values
        /\ changed_values' = after.changed_values
  /\ twin' = set_input(twin, input_index, value)
  /\ last' = [NoCall EXCEPT !.op = "set_input", !.input_index = input_index,
                            !.value = value,
                            !.stored = At(values, At(circuit.inputs, input_index).value_index),
                            !.fresh = Fresh]
  /\ UNCHANGED <<circuit, unseen, scenario, evaluation>>

TwinStep ==
  /\ \E components_to_update \in ComponentOrders(Sim) :
       LET after == StepIn(Sim, components_to_update)
       IN /\ values' = after.values
          /\ changed_values' = after.changed_values
  /\ \E components_to_update \in ComponentOrders(twin) :
       twin' = StepIn(twin, components_to_update)
  /\ last' = [NoCall EXCEPT !.op = "step"]
  /\ UNCHANGED <<circuit, unseen, scenario, evaluation>>

TwinSimulate ==
  /\ LET run == simulate_tracked(Tracked(Sim, {}))
     IN /\ values' = run.tracked.sim.values
        /\ changed_values' = run.tracked.sim.changed_values
        /\ last' = [NoCall EXCEPT !.op = "simulate", !.result = run.result,
                                  !.returned = run.returned,
                                  !.step_count = run.step_count,
                                  !.step_calls = run.step_calls]
  /\ LET run == simulate_tracked(Tracked(twin, {}))
     IN twin' = [run.tracked.sim EXCEPT !.result = run.result]
  /\ UNCHANGED <<circuit, unseen, scenario, evaluation>>

NextTwin ==
  \/ \E input_index \in 0..(Len(circuit.inputs) - 1), value \in Value :
       TwinSetInput(input_index, value)
  \/ TwinStep
  \/ TwinSimulate

SpecTwin == InitTwin /\ [][NextTwin]_vars

====
